---- MODULE Spec2Model ----
(***************************************************************************)
(* Transactional outbox (pentops/outbox.pg.go): the writer NamedSender.Send,*)
(* DBPublisher.Publish and the test harness OutboxAsserter, over one outbox *)
(* table.                                                                   *)
(*                                                                          *)
(* Strings that pass through the header codec are sequences of one-char     *)
(* strings, so that net/url escaping is computed character by character.    *)
(* Payload bytes are sequences of byte values.                              *)
(***************************************************************************)
EXTENDS Integers, Sequences, FiniteSets, TLC

\* ---------------------------------------------------------------- bounds
\* Send calls over the whole run
MaxSends == 2
\* harness calls (PopMessage, PopMatching, ForEachMessage, ...) over the run
MaxCalls == 2
\* Publish calls over the whole run
MaxPublishes == 1
\* attempts the transaction primitive makes within one Publish call
MaxTries == 2

\* ------------------------------------------------------- generic helpers
None == "none"

Range(s) == {s[i] : i \in 1..Len(s)}

RECURSIVE Flatten(_)
Flatten(ss) == IF ss = <<>> THEN <<>> ELSE Head(ss) \o Flatten(Tail(ss))

\* index of the first occurrence of c in s, 0 when absent (strings.Cut)
RECURSIVE IndexFrom(_, _, _)
IndexFrom(s, c, i) ==
    IF i > Len(s) THEN 0
    ELSE IF s[i] = c THEN i
    ELSE IndexFrom(s, c, i + 1)

Index(s, c) == IndexFrom(s, c, 1)

\* all orderings of a finite set, as sequences without repetition
Perms(S) ==
    {f \in [1..Cardinality(S) -> S] : \A i, j \in 1..Cardinality(S) : f[i] = f[j] => i = j}

\* --------------------------------------------------- net/url query codec
\* ASCII codes of the characters of the model's alphabet
Ascii ==
    [c \in {" ", "%", "&", "+", "-", ";", "=", "2", "3", "5", "6", "B", "D",
            "a", "b", "c", "e", "g", "i", "k", "p", "r", "s", "v"} |->
        CASE c = " " -> 32 [] c = "%" -> 37 [] c = "&" -> 38 [] c = "+" -> 43
          [] c = "-" -> 45 [] c = ";" -> 59 [] c = "=" -> 61
          [] c = "2" -> 50 [] c = "3" -> 51 [] c = "5" -> 53 [] c = "6" -> 54
          [] c = "B" -> 66 [] c = "D" -> 68
          [] c = "a" -> 97 [] c = "b" -> 98 [] c = "c" -> 99 [] c = "e" -> 101
          [] c = "g" -> 103 [] c = "i" -> 105 [] c = "k" -> 107 [] c = "p" -> 112
          [] c = "r" -> 114 [] c = "s" -> 115 [] c = "v" -> 118]

\* url.shouldEscape in encodeQueryComponent mode: letters, digits and -_.~ pass
ShouldEscape(c) == c \in {" ", "%", "&", "+", ";", "="}

\* the two upper-case hex digits of a character's code
HexOf(c) ==
    CASE c = "%" -> <<"2", "5">>
      [] c = "&" -> <<"2", "6">>
      [] c = "+" -> <<"2", "B">>
      [] c = ";" -> <<"3", "B">>
      [] c = "=" -> <<"3", "D">>

\* an encoder that stores keys and values as they are
QueryEscapeNothing(s) == s

\* url.QueryEscape
RECURSIVE QueryEscape(_)
QueryEscape(s) ==
    IF s = <<>> THEN <<>>
    ELSE LET c == Head(s)
         IN (IF c = " " THEN <<"+">>
             ELSE IF ShouldEscape(c) THEN <<"%">> \o HexOf(c)
             ELSE <<c>>) \o QueryEscape(Tail(s))

\* the characters whose escapes the alphabet can produce
Escapable == {"%", "&", "+", ";", "="}

\* the character a %XX escape stands for; None when XX is not one of the
\* escapes above (no such escape is ever stored by QueryEscape)
Unhex(h) ==
    IF \E c \in Escapable : HexOf(c) = h
    THEN CHOOSE c \in Escapable : HexOf(c) = h
    ELSE None

\* url.unescape, first pass: every % is followed by two hex digits
RECURSIVE UnescapeValid(_)
UnescapeValid(s) ==
    IF s = <<>> THEN TRUE
    ELSE IF Head(s) = "%"
    THEN Len(s) >= 3 /\ Unhex(SubSeq(s, 2, 3)) # None
         /\ UnescapeValid(SubSeq(s, 4, Len(s)))
    ELSE UnescapeValid(Tail(s))

\* url.unescape, second pass: %XX becomes its character, + becomes a space
RECURSIVE UnescapeChars(_)
UnescapeChars(s) ==
    IF s = <<>> THEN <<>>
    ELSE IF Head(s) = "%"
    THEN <<Unhex(SubSeq(s, 2, 3))>> \o UnescapeChars(SubSeq(s, 4, Len(s)))
    ELSE <<IF Head(s) = "+" THEN " " ELSE Head(s)>> \o UnescapeChars(Tail(s))

\* url.QueryUnescape: [ok, val]
QueryUnescape(s) ==
    IF UnescapeValid(s)
    THEN [ok |-> TRUE, val |-> UnescapeChars(s)]
    ELSE [ok |-> FALSE, val |-> <<>>]

\* lexicographic order of strings by character code (sort.Strings)
RECURSIVE StrLess(_, _)
StrLess(a, b) ==
    IF b = <<>> THEN FALSE
    ELSE IF a = <<>> THEN TRUE
    ELSE IF Head(a) # Head(b) THEN Ascii[Head(a)] < Ascii[Head(b)]
    ELSE StrLess(Tail(a), Tail(b))

\* the keys of a url.Values in sorted order
SortedKeys(v) ==
    CHOOSE f \in Perms(DOMAIN v) : \A i, j \in 1..Len(f) : i < j => StrLess(f[i], f[j])

\* url.Values built by NamedSender.Send: one Add per entry of the header map
ValuesOf(headers) == [k \in DOMAIN headers |-> <<headers[k]>>]

\* url.Values.Encode: key=value pairs joined by &, keys sorted, both escaped
RECURSIVE EncodePairs(_)
EncodePairs(pairs) ==
    IF pairs = <<>> THEN <<>>
    ELSE IF Len(pairs) = 1 THEN Head(pairs)
    ELSE Head(pairs) \o <<"&">> \o EncodePairs(Tail(pairs))

Encode(v) ==
    LET keys == SortedKeys(v)
        pairsOf(k) == [i \in 1..Len(v[k]) |-> QueryEscape(k) \o <<"=">> \o QueryEscape(v[k][i])]
    IN EncodePairs(Flatten([i \in 1..Len(keys) |-> pairsOf(keys[i])]))

\* url.ParseQuery, its error dropped as the callers drop it: a segment with a
\* semicolon, an empty segment or a segment that does not unescape is skipped
RECURSIVE ParseQueryInto(_, _)
ParseQueryInto(m, query) ==
    IF query = <<>> THEN m
    ELSE LET amp == Index(query, "&")
             seg == IF amp = 0 THEN query ELSE SubSeq(query, 1, amp - 1)
             rest == IF amp = 0 THEN <<>> ELSE SubSeq(query, amp + 1, Len(query))
             eq == Index(seg, "=")
             key == QueryUnescape(IF eq = 0 THEN seg ELSE SubSeq(seg, 1, eq - 1))
             value == QueryUnescape(IF eq = 0 THEN <<>> ELSE SubSeq(seg, eq + 1, Len(seg)))
         IN IF Index(seg, ";") # 0 \/ seg = <<>> \/ ~key.ok \/ ~value.ok
            THEN ParseQueryInto(m, rest)
            ELSE ParseQueryInto(
                     [k \in DOMAIN m \cup {key.val} |->
                         IF k = key.val
                         THEN (IF k \in DOMAIN m THEN m[k] ELSE <<>>) \o <<value.val>>
                         ELSE m[k]],
                     rest)

ParseQuery(query) == ParseQueryInto(<<>>, query)

\* the error url.ParseQuery returns beside its values: some segment holds a
\* semicolon, or its key or value does not unescape
RECURSIVE ParseQueryErr(_)
ParseQueryErr(query) ==
    IF query = <<>> THEN FALSE
    ELSE LET amp == Index(query, "&")
             seg == IF amp = 0 THEN query ELSE SubSeq(query, 1, amp - 1)
             rest == IF amp = 0 THEN <<>> ELSE SubSeq(query, amp + 1, Len(query))
             eq == Index(seg, "=")
             key == QueryUnescape(IF eq = 0 THEN seg ELSE SubSeq(seg, 1, eq - 1))
             value == QueryUnescape(IF eq = 0 THEN <<>> ELSE SubSeq(seg, eq + 1, Len(seg)))
         IN \/ Index(seg, ";") # 0
            \/ seg # <<>> /\ (~key.ok \/ ~value.ok)
            \/ ParseQueryErr(rest)

\* url.Values.Get: the first value of the key, "" when the key is absent
Get(v, key) == IF key \in DOMAIN v /\ Len(v[key]) > 0 THEN v[key][1] ELSE <<>>

\* map[string]string index: the value of the key, "" when the key is absent
MapGet(headers, key) == IF key \in DOMAIN headers THEN headers[key] ELSE <<>>

\* ------------------------------------------------------- protobuf codec
\* A message object: its topic and headers (MessagingTopic, MessagingHeaders)
\* and one field, number 1, of proto3 type "string" or "bytes", holding val.
\* A byte below 128 is one ASCII character; the model's other bytes never
\* form a valid UTF-8 sequence.
ValidUTF8(b) == \A i \in 1..Len(b) : b[i] < 128

\* proto.Marshal: a string field that is not valid UTF-8 is an error; the
\* default (empty) value is not written; otherwise tag, length, content
Marshal(msg) ==
    IF msg.type = "string" /\ ~ValidUTF8(msg.val)
    THEN [err |-> TRUE, bytes |-> <<>>]
    ELSE IF msg.val = <<>> THEN [err |-> FALSE, bytes |-> <<>>]
    ELSE [err |-> FALSE, bytes |-> <<(1 * 8) + 2, Len(msg.val)>> \o msg.val]

\* a decoder that reports success and leaves the message as it was
UnmarshalNothing(b, msg) == [err |-> FALSE, msg |-> msg]

\* proto.Unmarshal into msg: the message is reset, then field 1 is read;
\* truncated input and (for a string field) invalid UTF-8 are errors, and the
\* field then keeps the reset value
Unmarshal(b, msg) ==
    LET reset == [msg EXCEPT !.val = <<>>]
    IN IF b = <<>> THEN [err |-> FALSE, msg |-> reset]
       ELSE IF Len(b) < 2 \/ b[1] # (1 * 8) + 2 \/ Len(b) # 2 + b[2]
       THEN [err |-> TRUE, msg |-> reset]
       ELSE LET content == SubSeq(b, 3, Len(b))
            IN IF msg.type = "string" /\ ~ValidUTF8(content)
               THEN [err |-> TRUE, msg |-> reset]
               ELSE [err |-> FALSE, msg |-> [reset EXCEPT !.val = content]]

\* ------------------------------------------------------ input universes
GrpcService == <<"g", "r", "p", "c", "-", "s", "e", "r", "v", "i", "c", "e">>

Topics == {"t1", "t2"}

\* service names: a plain one and one that needs escaping
SvcA == <<"a">>
SvcB == <<"b", "&", " ">>

\* field contents: two valid strings, a byte string that is not UTF-8, and
\* the content a test's target object holds before a pop
ValX == <<120>>
ValY == <<121>>
ValBad == <<255>>
ValOld == <<111>>

Msg(topic, headers, type, val) ==
    [topic |-> topic, headers |-> headers, type |-> type, val |-> val]

\* the messages given to Send: on t1 two payloads under one service name and
\* a bytes payload that a string field cannot hold; on t2 a service name that
\* needs escaping, once with a string that cannot be marshalled
Messages ==
    {Msg("t1", GrpcService :> SvcA, "string", ValX),
     Msg("t1", GrpcService :> SvcA, "string", ValY),
     Msg("t1", GrpcService :> SvcA, "bytes", ValBad),
     Msg("t2", GrpcService :> SvcB, "string", ValX),
     Msg("t2", GrpcService :> SvcB, "string", ValBad)}

\* the message objects a test hands to PopMessage / NewMatcher: the expected
\* topic and headers, and a field content the pop is to overwrite
Expected ==
    {Msg("t1", GrpcService :> SvcA, "string", ValOld),
     Msg("t1", GrpcService :> SvcB, "string", ValOld),
     Msg("t2", GrpcService :> SvcB, "string", ValOld)}

\* predicate lists given to NewMatcher; a predicate is the value it requires
ConditionLists == {<<>>, <<ValY>>}

\* keys the asserter's ServiceNameHeader field is set to
ServiceNameHeaders == {GrpcService}

\* ------------------------------------------------------------- state
VARIABLES
    table,              \* the committed rows of the outbox table
    nextId,             \* the ids uuid.NewString has handed out so far, plus one
    tx,                 \* the sender's transaction: state, uncommitted inserts
    sends,              \* Send calls made so far
    hs,                 \* per harness caller: the call in flight
    calls,              \* harness calls started so far
    last,               \* the call the last step returned from, with what it
                        \* returned; IdleCall when the last step returned from none
    committed,          \* ids of the rows some commit has made visible
    claimed,            \* per row id, how many successful pops have returned it
    ServiceNameHeader,  \* OutboxAsserter.ServiceNameHeader
    pub                 \* the Publish call in flight or returned last

vars == <<table, nextId, tx, sends, hs, calls, last, committed, claimed,
          ServiceNameHeader, pub>>

Callers == {"h1", "h2"}

\* the empty string as a row id
NoID == 0

Ids(rows) == {r.id : r \in rows}

IdleTx == [state |-> "idle", rows |-> <<>>, okSends |-> 0]

IdleCall ==
    [pc |-> "idle", op |-> None, by |-> None, arg |-> None, message |-> None,
     conditions |-> <<>>, cands |-> {}, cursor |-> <<>>, attempted |-> 0,
     found |-> NoID,
     dels |-> {}, err |-> None, deleted |-> {}, seen |-> {}, out |-> <<>>]

\* DBPublisher.Publish: where the call is (idle, send: in the loop over msgs,
\* commit: the callback returned nil, failed: the attempt was rolled back,
\* done: returned), its batch, the index of the next message, the rows its
\* transaction has inserted and not committed, the attempts begun, the ids
\* every attempt of the call has generated, the error and the calls made
IdlePub ==
    [pc |-> "idle", msgs |-> <<>>, i |-> 1, rows |-> <<>>, tries |-> 0,
     ids |-> {}, err |-> None, calls |-> 0]

\* NewOutboxAsserter and the init() of the writer: an empty table, nothing in
\* flight
Init ==
    /\ table = {}
    /\ nextId = 1
    /\ tx = IdleTx
    /\ sends = 0
    /\ hs = [p \in Callers |-> IdleCall]
    /\ calls = 0
    /\ last = IdleCall
    /\ committed = {}
    /\ claimed = <<>>
    /\ ServiceNameHeader \in ServiceNameHeaders
    /\ pub = IdlePub

\* a call of op by caller p with the caller's message object arg
NewCall(op, p, arg) ==
    [IdleCall EXCEPT !.op = op, !.by = p, !.arg = arg, !.message = arg]

\* the call has returned err ("nil": success)
Ended(c, err) == [c EXCEPT !.pc = "done", !.err = err, !.dels = {}]

\* ------------------------------------------------------------ the writer
\* the caller of Send opens the transaction it will pass to Send
TxBegin ==
    /\ tx.state = "idle"
    /\ sends < MaxSends
    /\ tx' = [IdleTx EXCEPT !.state = "open"]
    /\ last' = IdleCall
    /\ UNCHANGED <<table, nextId, sends, hs, calls, committed, claimed,
                   ServiceNameHeader, pub>>

\* a writer that generates its id once and uses it for every row
InsertRowOneId(id, msg, msgBytes) ==
    [id |-> 1, destination |-> msg.topic,
     headers |-> Encode(ValuesOf(msg.headers)), message |-> msgBytes]

\* the row NamedSender.Send hands to tx.Insert
InsertRow(id, msg, msgBytes) ==
    [id |-> id, destination |-> msg.topic,
     headers |-> Encode(ValuesOf(msg.headers)), message |-> msgBytes]

\* a writer that issues its insert twice
InsertTwice(rows, row) == Append(Append(rows, row), row)

\* tx.Insert of one row: the transaction's uncommitted rows afterwards
Insert(rows, row) == Append(rows, row)

\* a writer that goes on after proto.Marshal has failed
MarshalErrorDropped(m) == FALSE

\* Send's check of the error proto.Marshal returned
MarshalFailed(m) == m.err

\* NamedSender.Send(ctx, tx, msg)
Send(msg) ==
    /\ tx.state = "open"
    /\ sends < MaxSends
    /\ sends' = sends + 1
    /\ LET m == Marshal(msg)
           c == NewCall("Send", "sender", msg)
       IN IF MarshalFailed(m)
          THEN /\ last' = Ended(c, "marshal")
               /\ UNCHANGED <<tx, nextId>>
          ELSE /\ nextId' = nextId + 1
               /\ \E insertFails \in BOOLEAN :
                     IF insertFails
                     THEN /\ tx' = [tx EXCEPT !.state = "aborted"]
                          /\ last' = Ended(c, "insert")
                     ELSE /\ tx' = [tx EXCEPT
                                      !.rows = Insert(@, InsertRow(nextId, msg, m.bytes)),
                                      !.okSends = @ + 1]
                          /\ last' = Ended([c EXCEPT !.found = nextId], "nil")
    /\ UNCHANGED <<table, hs, calls, committed, claimed, ServiceNameHeader, pub>>

\* the rows a commit of the sender's transaction makes visible
CommitRows(rows) == Range(rows)

\* the caller commits: the inserted rows become visible together
TxCommit ==
    /\ tx.state = "open"
    /\ table' = table \cup CommitRows(tx.rows)
    /\ committed' = committed \cup Ids(table')
    /\ tx' = IdleTx
    /\ last' = Ended(NewCall("Commit", "sender", None), "nil")
    /\ UNCHANGED <<nextId, sends, hs, calls, claimed, ServiceNameHeader, pub>>

\* the caller rolls back (as it must once an insert has failed): no row survives
TxRollback ==
    /\ tx.state \in {"open", "aborted"}
    /\ tx' = IdleTx
    /\ last' = IdleCall
    /\ UNCHANGED <<table, nextId, sends, hs, calls, committed, claimed,
                   ServiceNameHeader, pub>>

\* ------------------------------------------------------------ Publish
\* batches given to Publish: none, one and two messages, one message twice,
\* and a message that cannot be marshalled before and after one that can
Batches ==
    LET x == Msg("t1", GrpcService :> SvcA, "string", ValX)
        y == Msg("t1", GrpcService :> SvcA, "string", ValY)
        bad == Msg("t2", GrpcService :> SvcB, "string", ValBad)
    IN {<<>>, <<x>>, <<x, y>>, <<x, x>>, <<x, bad>>, <<bad, x>>}

\* the transaction of an attempt begins: the loop starts at the first message,
\* or the callback returns nil at once for an empty batch
AttemptBegun(p) ==
    [p EXCEPT !.pc = IF p.msgs = <<>> THEN "commit" ELSE "send",
              !.i = 1, !.rows = <<>>, !.tries = @ + 1, !.err = None]

\* Publish(ctx, msgs...): Transact begins the first attempt
Publish(msgs) ==
    /\ pub.pc \in {"idle", "done"}
    /\ pub.calls < MaxPublishes
    /\ pub' = AttemptBegun([IdlePub EXCEPT !.msgs = msgs, !.calls = pub.calls + 1])
    /\ last' = IdleCall
    /\ UNCHANGED <<table, nextId, tx, sends, hs, calls, committed, claimed,
                   ServiceNameHeader>>

\* a loop that goes on to the next message whatever Send returned
SendErrorIgnored(err) == FALSE

\* the callback's check of the error Send returned
SendFailed(err) == err # "nil"

\* the attempt has failed with err: Transact rolls its transaction back
AttemptFailed(p, err) == [p EXCEPT !.pc = "failed", !.rows = <<>>, !.err = err]

\* one pass of the callback's loop: Send of msgs[i] in the attempt's
\* transaction; an error of Send is returned, which ends the attempt
PublishSend ==
    /\ pub.pc = "send"
    /\ LET msg == pub.msgs[pub.i]
           m == Marshal(msg)
           next(p) == IF p.i >= Len(p.msgs)
                      THEN [p EXCEPT !.pc = "commit", !.i = @ + 1]
                      ELSE [p EXCEPT !.i = @ + 1]
       IN IF MarshalFailed(m)
          THEN /\ pub' = IF SendFailed("marshal")
                         THEN AttemptFailed(pub, "marshal")
                         ELSE next(pub)
               /\ UNCHANGED nextId
          ELSE /\ nextId' = nextId + 1
               /\ \E insertFails \in BOOLEAN :
                     IF insertFails
                     THEN pub' = IF SendFailed("insert")
                                 THEN AttemptFailed(pub, "insert")
                                 ELSE next(pub)
                     ELSE pub' = next([pub EXCEPT
                                         !.rows = Insert(@, InsertRow(nextId, msg, m.bytes)),
                                         !.ids = @ \cup {nextId}])
    /\ last' = IdleCall
    /\ UNCHANGED <<table, tx, sends, hs, calls, committed, claimed, ServiceNameHeader>>

\* the callback returned nil: Transact commits, the rows become visible
\* together and Publish returns nil; a failed commit leaves no row
PublishCommit ==
    /\ pub.pc = "commit"
    /\ \E commitFails \in BOOLEAN :
         IF commitFails
         THEN /\ pub' = AttemptFailed(pub, "commit")
              /\ UNCHANGED <<table, committed>>
         ELSE /\ table' = table \cup CommitRows(pub.rows)
              /\ committed' = committed \cup Ids(table')
              /\ pub' = [pub EXCEPT !.pc = "done", !.err = "nil"]
    /\ last' = IdleCall
    /\ UNCHANGED <<nextId, tx, sends, hs, calls, claimed, ServiceNameHeader>>

\* Retryable: after a failed attempt Transact may run the callback again in a
\* new transaction
PublishRetry ==
    /\ pub.pc = "failed"
    /\ pub.tries < MaxTries
    /\ pub' = AttemptBegun(pub)
    /\ last' = IdleCall
    /\ UNCHANGED <<table, nextId, tx, sends, hs, calls, committed, claimed,
                   ServiceNameHeader>>

\* or Transact gives up and Publish returns the attempt's error
PublishReturn ==
    /\ pub.pc = "failed"
    /\ pub' = [pub EXCEPT !.pc = "done"]
    /\ last' = IdleCall
    /\ UNCHANGED <<table, nextId, tx, sends, hs, calls, committed, claimed,
                   ServiceNameHeader>>

\* ----------------------------------------------------------- the harness
\* a caller may start a call when its previous one has returned. The callers
\* are interchangeable, so h2 names a call started while h1's is in flight.
CanCall(p) ==
    /\ hs[p].pc = "idle"
    /\ calls < MaxCalls
    /\ p = "h2" => hs["h1"].pc # "idle"

\* caller p's call returns with record c: Transact has rolled back or committed
Return(p, c) ==
    /\ hs' = [hs EXCEPT ![p] = IdleCall]
    /\ last' = c

\* caller p's call goes on with record c
Continue(p, c) ==
    /\ hs' = [hs EXCEPT ![p] = c]
    /\ last' = IdleCall

\* storedHeaders.Get(oa.ServiceNameHeader) of a row, the parse error dropped
StoredServiceHeader(row) == Get(ParseQuery(row.headers), ServiceNameHeader)

\* a harness that reads the sender's uncommitted rows
VisibleDirty == table \cup Range(tx.rows)

\* the rows a statement of a harness transaction reads: the committed ones
Visible == table

\* a select without its WHERE clause
RowsOfAnyDestination(destination) == Visible

\* the rows SELECT ... WHERE destination = $1 returns
RowsFor(destination) == {r \in Visible : r.destination = destination}

\* a PopMessage without the header check
HeaderMismatchIgnored(provided, stored) == FALSE

\* PopMessage's comparison of the declared and the stored service header
HeaderMismatch(provided, stored) == provided # stored

\* PopMessage's callback after SelectRow has scanned row r into msgID,
\* msgHeader, msgContent: header check, then Unmarshal into the caller's message
PopMessageRow(message, r) ==
    IF HeaderMismatch(MapGet(message.headers, ServiceNameHeader), StoredServiceHeader(r))
    THEN [err |-> "header_mismatch", message |-> message, found |-> NoID]
    ELSE LET u == Unmarshal(r.message, message)
         IN IF u.err
            THEN [err |-> "decode", message |-> u.msg, found |-> NoID]
            ELSE [err |-> "nil", message |-> u.msg, found |-> r.id]

\* PopMessage up to its Delete: the select (LIMIT 1, no ORDER BY: any row of
\* the destination) and the checks on the row
PopMessageSelect(p, message) ==
    /\ CanCall(p)
    /\ calls' = calls + 1
    /\ LET c == NewCall("PopMessage", p, message)
       IN \E selectFails \in BOOLEAN :
            IF selectFails
            THEN Return(p, Ended(c, "select"))
            ELSE IF RowsFor(message.topic) = {}
            THEN Return(p, Ended(c, "no_rows"))
            ELSE \E r \in RowsFor(message.topic) :
                   LET res == PopMessageRow(message, r)
                       seen == [c EXCEPT !.cands = Ids(RowsFor(message.topic)),
                                         !.cursor = <<r>>, !.seen = {r.id},
                                         !.message = res.message]
                   IN IF res.err # "nil"
                      THEN Return(p, Ended(seen, res.err))
                      ELSE Continue(p, [seen EXCEPT !.pc = "delete", !.found = res.found])
    /\ UNCHANGED <<table, nextId, tx, sends, committed, claimed, ServiceNameHeader, pub>>

\* a matcher that rejects a row it cannot decode instead of failing
AttemptSkipsMalformed(m, conditions, serviceName, data) ==
    IF serviceName # MapGet(m.headers, GrpcService)
    THEN [ok |-> FALSE, err |-> FALSE, message |-> m]
    ELSE LET u == Unmarshal(data, m)
         IN IF u.err \/ \E i \in 1..Len(conditions) : u.msg.val # conditions[i]
            THEN [ok |-> FALSE, err |-> FALSE, message |-> u.msg]
            ELSE [ok |-> TRUE, err |-> FALSE, message |-> u.msg]

\* a matcher that decodes into a scratch message and fills its target only
\* with a row it accepts
AttemptFillsOnAccept(m, conditions, serviceName, data) ==
    IF serviceName # MapGet(m.headers, GrpcService)
    THEN [ok |-> FALSE, err |-> FALSE, message |-> m]
    ELSE LET u == Unmarshal(data, m)
         IN IF u.err
            THEN [ok |-> FALSE, err |-> TRUE, message |-> u.msg]
            ELSE IF \E i \in 1..Len(conditions) : u.msg.val # conditions[i]
            THEN [ok |-> FALSE, err |-> FALSE, message |-> m]
            ELSE [ok |-> TRUE, err |-> FALSE, message |-> u.msg]

\* MessageMatch.Attempt(serviceName, data) on target m with its predicates
Attempt(m, conditions, serviceName, data) ==
    IF serviceName # MapGet(m.headers, GrpcService)
    THEN [ok |-> FALSE, err |-> FALSE, message |-> m]
    ELSE LET u == Unmarshal(data, m)
         IN IF u.err
            THEN [ok |-> FALSE, err |-> TRUE, message |-> u.msg]
            ELSE IF \E i \in 1..Len(conditions) : u.msg.val # conditions[i]
            THEN [ok |-> FALSE, err |-> FALSE, message |-> u.msg]
            ELSE [ok |-> TRUE, err |-> FALSE, message |-> u.msg]

\* a loop without the break: the last row the matcher accepts wins
RECURSIVE MatchLoopLast(_, _, _, _)
MatchLoopLast(rows, i, m, conditions) ==
    IF i > Len(rows)
    THEN [err |-> "nil", found |-> NoID, message |-> m, attempted |-> i - 1]
    ELSE LET a == Attempt(m, conditions, StoredServiceHeader(rows[i]), rows[i].message)
             rest == MatchLoopLast(rows, i + 1, a.message, conditions)
         IN IF a.err
            THEN [err |-> "decode", found |-> NoID, message |-> a.message, attempted |-> i]
            ELSE IF a.ok /\ rest.err = "nil" /\ rest.found = NoID
            THEN [err |-> "nil", found |-> rows[i].id, message |-> rest.message,
                  attempted |-> rest.attempted]
            ELSE rest

\* PopMatching's first loop over the cursor from row i on: the first row the
\* matcher accepts ends it, an error of the matcher is returned; attempted is
\* the number of rows scanned and given to the matcher
RECURSIVE MatchLoop(_, _, _, _)
MatchLoop(rows, i, m, conditions) ==
    IF i > Len(rows)
    THEN [err |-> "nil", found |-> NoID, message |-> m, attempted |-> i - 1]
    ELSE LET a == Attempt(m, conditions, StoredServiceHeader(rows[i]), rows[i].message)
         IN IF a.err
            THEN [err |-> "decode", found |-> NoID, message |-> a.message, attempted |-> i]
            ELSE IF ~a.ok
            THEN MatchLoop(rows, i + 1, a.message, conditions)
            ELSE [err |-> "nil", found |-> rows[i].id, message |-> a.message,
                  attempted |-> i]

\* a PopMatching that leaves the cursor where the first loop ended
DrainNothing(rows, attempted) == <<>>

\* PopMatching's second loop: the rows of the cursor after the ones the first
\* loop has scanned, read and dropped
Drain(rows, attempted) == SubSeq(rows, attempted + 1, Len(rows))

\* PopMatching up to its Delete: the select of all rows of the destination (no
\* ORDER BY: any read order), the matching loop, the drain (not reached when
\* the matcher returns an error), the foundOne check
PopMatchingSelect(p, message, conditions) ==
    /\ CanCall(p)
    /\ calls' = calls + 1
    /\ LET c == [NewCall("PopMatching", p, message) EXCEPT !.conditions = conditions]
       IN \E selectFails \in BOOLEAN :
            IF selectFails
            THEN Return(p, Ended(c, "select"))
            ELSE \E rows \in Perms(RowsFor(message.topic)) :
                   LET res == MatchLoop(rows, 1, message, conditions)
                       scanned == SubSeq(rows, 1, res.attempted)
                       drained == IF res.err = "nil"
                                  THEN Drain(rows, res.attempted)
                                  ELSE <<>>
                       seen == [c EXCEPT !.cands = Ids(Range(rows)),
                                         !.cursor = rows,
                                         !.seen = Ids(Range(scanned) \cup Range(drained)),
                                         !.message = res.message,
                                         !.attempted = res.attempted]
                   IN IF res.err # "nil"
                      THEN Return(p, Ended(seen, res.err))
                      ELSE IF res.found = NoID
                      THEN Return(p, Ended(seen, "no_match"))
                      ELSE Continue(p, [seen EXCEPT !.pc = "delete", !.found = res.found])
    /\ UNCHANGED <<table, nextId, tx, sends, committed, claimed, ServiceNameHeader, pub>>

\* ids another caller's uncommitted delete holds the row lock of
LockedByOthers(p) == UNION {hs[q].dels : q \in Callers \ {p}}

\* DELETE ... WHERE id = $1: the ids of the rows it removes
DeleteWhereId(rows, id) == {r.id : r \in {x \in rows : x.id = id}}

\* the Delete of the selected row; the number of rows it affected is dropped.
\* It waits for the row lock and then acts on the rows committed by then.
DeleteFound(p) ==
    /\ hs[p].pc = "delete"
    /\ hs[p].found \notin LockedByOthers(p)
    /\ \E deleteFails \in BOOLEAN :
         IF deleteFails
         THEN Return(p, Ended(hs[p], "delete"))
         ELSE Continue(p, [hs[p] EXCEPT !.pc = "commit",
                                        !.dels = DeleteWhereId(table, hs[p].found)])
    /\ UNCHANGED <<table, nextId, tx, sends, calls, committed, claimed,
                   ServiceNameHeader, pub>>

PopMessageDelete(p) == hs[p].op = "PopMessage" /\ DeleteFound(p)

PopMatchingDelete(p) == hs[p].op = "PopMatching" /\ DeleteFound(p)

\* one more successful pop has returned the row with this id
Claim(counts, id) ==
    [i \in DOMAIN counts \cup {id} |->
        IF i = id THEN (IF i \in DOMAIN counts THEN counts[i] + 1 ELSE 1) ELSE counts[i]]

\* the rows left by a commit that deletes the rows with ids dels
AfterDelete(rows, dels) == {r \in rows : r.id \notin dels}

\* Transact after the callback returned nil: commit, the deletes take effect;
\* a failed commit rolls back
TransactCommit(p) ==
    /\ hs[p].pc = "commit"
    /\ \E commitFails \in BOOLEAN :
         IF commitFails
         THEN /\ Return(p, Ended(hs[p], "commit"))
              /\ UNCHANGED <<table, claimed>>
         ELSE /\ table' = AfterDelete(table, hs[p].dels)
              /\ Return(p, [Ended(hs[p], "nil") EXCEPT
                               !.deleted = Ids(table) \ Ids(table')])
              /\ claimed' = IF hs[p].op \in {"PopMessage", "PopMatching"}
                            THEN Claim(claimed, hs[p].found)
                            ELSE claimed
    /\ UNCHANGED <<nextId, tx, sends, calls, committed, ServiceNameHeader, pub>>

\* a purge with a WHERE clause left in: only the rows of one destination
DeleteOneTopic(rows) == {r.id : r \in {x \in rows : x.destination = "t1"}}

\* DELETE FROM outbox, no WHERE: the ids of the rows it removes
DeleteAll(rows) == Ids(rows)

\* PurgeAll up to its commit: DELETE without WHERE, on the rows committed by
\* then, after waiting for the row locks of other callers
PurgeAllDelete(p) ==
    /\ CanCall(p)
    /\ LockedByOthers(p) \cap Ids(table) = {}
    /\ calls' = calls + 1
    /\ LET c == NewCall("PurgeAll", p, None)
       IN \E deleteFails \in BOOLEAN :
            IF deleteFails
            THEN Return(p, Ended(c, "delete"))
            ELSE Continue(p, [c EXCEPT !.pc = "commit", !.dels = DeleteAll(table)])
    /\ UNCHANGED <<table, nextId, tx, sends, committed, claimed, ServiceNameHeader, pub>>

\* a callback given the stored headers string as it is
CallbackArgsRawHeaders(row) == <<row.destination, row.headers, row.message>>

\* the arguments of ForEachMessage's callback for a row
CallbackArgs(row) == <<row.destination, StoredServiceHeader(row), row.message>>

\* ForEachMessage: one select of every row, then the callback per row with
\* (destination, stored service header, payload), in the order read
ForEachMessage(p) ==
    /\ CanCall(p)
    /\ calls' = calls + 1
    /\ LET c == NewCall("ForEachMessage", p, None)
       IN \E selectFails \in BOOLEAN :
            IF selectFails
            THEN Return(p, Ended(c, "select"))
            ELSE \E rows \in Perms(Visible) :
                   Return(p, Ended([c EXCEPT
                                      !.cursor = rows, !.seen = Ids(Range(rows)),
                                      !.out = [i \in 1..Len(rows) |->
                                                 CallbackArgs(rows[i])]],
                                   "nil"))
    /\ UNCHANGED <<table, nextId, tx, sends, committed, claimed, ServiceNameHeader, pub>>

\* AssertNoMessages: count(*) grouped by destination; fails when a group exists
AssertNoMessages(p) ==
    /\ CanCall(p)
    /\ calls' = calls + 1
    /\ LET c == NewCall("AssertNoMessages", p, None)
           dests == {r.destination : r \in Visible}
       IN \E selectFails \in BOOLEAN :
            IF selectFails
            THEN Return(p, Ended(c, "select"))
            ELSE \E order \in Perms(dests) :
                   LET msgCounts == [i \in 1..Len(order) |->
                                        <<Cardinality(RowsFor(order[i])), order[i]>>]
                   IN Return(p, Ended([c EXCEPT !.seen = Ids(Visible), !.out = msgCounts],
                                      IF Len(msgCounts) # 0 THEN "found" ELSE "nil"))
    /\ UNCHANGED <<table, nextId, tx, sends, committed, claimed, ServiceNameHeader, pub>>

\* a check that lets a single row pass
MoreThanOne(msgCount) == msgCount > 1

\* AssertTopicIsEmpty's check of the count
NonZero(msgCount) == msgCount # 0

\* AssertTopicIsEmpty(topic): count(*) of the topic's rows; fails when not zero
AssertTopicIsEmpty(p, topic) ==
    /\ CanCall(p)
    /\ calls' = calls + 1
    /\ LET c == NewCall("AssertTopicIsEmpty", p, topic)
           msgCount == Cardinality(RowsFor(topic))
       IN \E selectFails \in BOOLEAN :
            IF selectFails
            THEN Return(p, Ended(c, "select"))
            ELSE Return(p, Ended([c EXCEPT !.seen = Ids(RowsFor(topic)),
                                           !.out = <<msgCount>>],
                                 IF NonZero(msgCount) THEN "found" ELSE "nil"))
    /\ UNCHANGED <<table, nextId, tx, sends, committed, claimed, ServiceNameHeader, pub>>

\* ------------------------------------------------------ the specification
Next ==
    \/ TxBegin
    \/ \E msg \in Messages : Send(msg)
    \/ TxCommit
    \/ TxRollback
    \/ \E p \in Callers, message \in Expected : PopMessageSelect(p, message)
    \/ \E p \in Callers : PopMessageDelete(p)
    \/ \E p \in Callers, message \in Expected, conditions \in ConditionLists :
          PopMatchingSelect(p, message, conditions)
    \/ \E p \in Callers : PopMatchingDelete(p)
    \/ \E p \in Callers : TransactCommit(p)
    \/ \E p \in Callers : PurgeAllDelete(p)
    \/ \E p \in Callers : ForEachMessage(p)
    \/ \E p \in Callers : AssertNoMessages(p)
    \/ \E p \in Callers, topic \in Topics : AssertTopicIsEmpty(p, topic)

Spec == Init /\ [][Next]_vars

\* The harness on a table as a test may find it: the asserter is handed a
\* connection, and the rows of its table are those any writer of the database
\* has committed. Two such rows on t1, both with payload bytes Send would
\* store: one whose headers string is grpc-service=a followed by a truncated
\* escape, one whose headers string is well formed.
ForeignRows ==
    {[id |-> 101, destination |-> "t1",
      headers |-> GrpcService \o <<"=", "a", "&", "%">>,
      message |-> Marshal(Msg("t1", <<>>, "string", ValX)).bytes],
     [id |-> 102, destination |-> "t1",
      headers |-> GrpcService \o <<"=", "a">>,
      message |-> Marshal(Msg("t1", <<>>, "string", ValY)).bytes]}

ForeignInit ==
    /\ table \in SUBSET ForeignRows \ {{}}
    /\ nextId = 1
    /\ tx = IdleTx
    /\ sends = 0
    /\ hs = [p \in Callers |-> IdleCall]
    /\ calls = 0
    /\ last = IdleCall
    /\ committed = Ids(table)
    /\ claimed = <<>>
    /\ ServiceNameHeader \in ServiceNameHeaders
    /\ pub = IdlePub

\* the operations of the harness
HarnessNext ==
    \/ \E p \in Callers, message \in Expected : PopMessageSelect(p, message)
    \/ \E p \in Callers : PopMessageDelete(p)
    \/ \E p \in Callers, message \in Expected, conditions \in ConditionLists :
          PopMatchingSelect(p, message, conditions)
    \/ \E p \in Callers : PopMatchingDelete(p)
    \/ \E p \in Callers : TransactCommit(p)
    \/ \E p \in Callers : PurgeAllDelete(p)
    \/ \E p \in Callers : ForEachMessage(p)
    \/ \E p \in Callers : AssertNoMessages(p)
    \/ \E p \in Callers, topic \in Topics : AssertTopicIsEmpty(p, topic)

ForeignSpec == ForeignInit /\ [][HarnessNext]_vars

\* The header codec on header maps of every shape: any subset of two keys, one
\* of them holding the separator of key and value, each with a value that is
\* empty, plain, holds separators and a space, reads as an escape, or holds a
\* plus sign and a semicolon
CodecKeys == {GrpcService, <<"k", "=">>}

CodecValues == {<<>>, SvcA, SvcB, <<"%", "2", "5">>, <<"+", ";">>}

HeaderMaps == UNION {[S -> CodecValues] : S \in SUBSET CodecKeys}

CodecMessages == {Msg("t1", h, "string", ValX) : h \in HeaderMaps}

\* the writer storing these messages, and ForEachMessage decoding the rows
CodecNext ==
    \/ TxBegin
    \/ \E msg \in CodecMessages : Send(msg)
    \/ TxCommit
    \/ TxRollback
    \/ \E p \in Callers : ForEachMessage(p)

CodecSpec == Init /\ [][CodecNext]_vars

\* An asserter whose ServiceNameHeader field a test has set to another key:
\* the messages carry a service name under both keys, and the expected
\* messages declare the stored names, or another name under one of the keys
OtherKey == <<"k">>

KeyNames == {GrpcService, OtherKey}

KeyMessages ==
    {Msg("t1", (GrpcService :> SvcA) @@ (OtherKey :> SvcB), "string", ValX)}

KeyExpected ==
    {Msg("t1", (GrpcService :> SvcA) @@ (OtherKey :> SvcB), "string", ValOld),
     Msg("t1", (GrpcService :> SvcB) @@ (OtherKey :> SvcB), "string", ValOld),
     Msg("t1", (GrpcService :> SvcA) @@ (OtherKey :> SvcA), "string", ValOld)}

KeyInit ==
    /\ table = {}
    /\ nextId = 1
    /\ tx = IdleTx
    /\ sends = 0
    /\ hs = [p \in Callers |-> IdleCall]
    /\ calls = 0
    /\ last = IdleCall
    /\ committed = {}
    /\ claimed = <<>>
    /\ ServiceNameHeader \in KeyNames
    /\ pub = IdlePub

KeyNext ==
    \/ TxBegin
    \/ \E msg \in KeyMessages : Send(msg)
    \/ TxCommit
    \/ TxRollback
    \/ \E p \in Callers, message \in KeyExpected : PopMessageSelect(p, message)
    \/ \E p \in Callers : PopMessageDelete(p)
    \/ \E p \in Callers, message \in KeyExpected : PopMatchingSelect(p, message, <<>>)
    \/ \E p \in Callers : PopMatchingDelete(p)
    \/ \E p \in Callers : TransactCommit(p)

KeySpec == KeyInit /\ [][KeyNext]_vars

\* Publish beside a reader of the table
PublishNext ==
    \/ \E msgs \in Batches : Publish(msgs)
    \/ PublishSend
    \/ PublishCommit
    \/ PublishRetry
    \/ PublishReturn
    \/ \E p \in Callers : ForEachMessage(p)

PublishSpec == Init /\ [][PublishNext]_vars

\* ---------------------------------------------------------------- claims
\* the step is a call of Send, which has returned err
SendReturned(err) == sends' = sends + 1 /\ last'.err = err

\* C1: a Send that returns nil adds exactly one row to the transaction it was
\* given and none to the committed table; the row carries an id never handed
\* out before, the message's topic, its encoded headers and its serialized
\* payload. A commit grows the table by exactly the number of Send calls of the
\* transaction that returned nil.
C1_SendInsertsOneRow ==
    [][/\ SendReturned("nil") =>
            /\ Len(tx'.rows) = Len(tx.rows) + 1
            /\ SubSeq(tx'.rows, 1, Len(tx.rows)) = tx.rows
            /\ table' = table
            /\ LET row == tx'.rows[Len(tx'.rows)]
               IN /\ row.id \notin 1..(nextId - 1)
                  /\ row.id \notin Ids(table) \cup Ids(Range(tx.rows)) \cup committed
                  /\ row.destination = last'.arg.topic
                  /\ row.headers = Encode(ValuesOf(last'.arg.headers))
                  /\ row.message = Marshal(last'.arg).bytes
       /\ last'.op = "Commit" =>
            /\ Cardinality(table') = Cardinality(table) + tx.okSends
            /\ table \subseteq table'
      ]_vars

\* C1 witness: a transaction with two Send calls that returned nil has
\* committed, and the table holds its two rows
C1_Witness ==
    /\ last.op = "Commit"
    /\ Cardinality(table) = 2
    /\ nextId = 3

\* C2: a Send whose payload fails to serialize returns that error and inserts
\* nothing: the transaction's rows, the table and the id generator are as before
C2_MarshalErrorInsertsNothing ==
    [][(sends' = sends + 1 /\ Marshal(last'.arg).err) =>
          /\ last'.err = "marshal"
          /\ tx' = tx
          /\ table' = table
          /\ nextId' = nextId
      ]_vars

\* C2 witness: Send has returned the serialization error in a transaction that
\* already holds an inserted row
C2_Witness ==
    /\ last.op = "Send"
    /\ last.err = "marshal"
    /\ Len(tx.rows) = 1

\* the two pops
Pops == {"PopMessage", "PopMatching"}

\* the service-header value the expected message of call c declares
Declared(c) == MapGet(c.arg.headers, ServiceNameHeader)

\* row r is one call c is to accept: its stored service header is the declared
\* one, its payload decodes into the expected message's type, and every
\* predicate of the matcher holds of the decoded message
Accepts(c, r) ==
    /\ StoredServiceHeader(r) = Declared(c)
    /\ ~Unmarshal(r.message, c.arg).err
    /\ \A i \in 1..Len(c.conditions) : Unmarshal(r.message, c.arg).msg.val = c.conditions[i]

\* row r is a candidate of call c whose payload does not decode
Malformed(c, r) ==
    /\ StoredServiceHeader(r) = Declared(c)
    /\ Unmarshal(r.message, c.arg).err

\* the harness call the step has started: returned within the step, or in flight
StartedCalls ==
    IF calls' # calls + 1 THEN {}
    ELSE IF last'.pc = "done" THEN {last'}
    ELSE {hs'[p] : p \in {q \in Callers : hs[q].pc = "idle" /\ hs'[q].pc # "idle"}}

\* the message Send stored as row r
SentAs(r, m) == ~Marshal(m).err /\ r = InsertRow(r.id, m, Marshal(m).bytes)

\* C3 as claimed: after a successful PopMessage, every message appended to the
\* destination before the call with the declared service header is the one the
\* pop has filled in
C3_Original ==
    (last.op = "PopMessage" /\ last.err = "nil") =>
        \A r \in table \cup Range(last.cursor) :
            (r.id \in last.cands /\ StoredServiceHeader(r) = Declared(last)) =>
                \E m \in Messages : SentAs(r, m) /\ last.message.val = m.val

\* C3: after a successful PopMessage the caller's message holds the payload of
\* the message whose row the pop selected, a committed row of the destination
\* that Send stored, and that message's service header is the declared one
C3_PopMessageFillsSelectedRow ==
    (last.op = "PopMessage" /\ last.err = "nil") =>
        /\ Len(last.cursor) = 1
        /\ LET r == last.cursor[1]
           IN /\ r.id = last.found
              /\ r.id \in committed
              /\ r.destination = last.arg.topic
              /\ \E m \in Messages :
                    /\ SentAs(r, m)
                    /\ last.message = [last.arg EXCEPT !.val = m.val]
                    /\ Marshal(last.message).bytes = r.message
                    /\ MapGet(m.headers, ServiceNameHeader) = Declared(last)
                    /\ StoredServiceHeader(r) = MapGet(m.headers, ServiceNameHeader)

\* C3 witness: a PopMessage has succeeded on a destination that held two rows
\* with the declared service header, filling in the payload of the one selected
C3_Witness ==
    /\ last.op = "PopMessage"
    /\ last.err = "nil"
    /\ Cardinality(last.cands) = 2
    /\ last.message.val # last.arg.val
    /\ \E r \in table : r.id \in last.cands /\ StoredServiceHeader(r) = Declared(last)

\* C4: a PopMessage that has selected a row whose stored service header is not
\* the declared one returns the header-mismatch error with the table and the
\* caller's message as they were, and never goes on to its delete
C4_HeaderMismatchLeavesRow ==
    [][\A c \in StartedCalls :
          (c.op = "PopMessage" /\ Len(c.cursor) = 1
             /\ StoredServiceHeader(c.cursor[1]) # Declared(c)) =>
                /\ c.pc = "done"
                /\ c.err = "header_mismatch"
                /\ c.message = c.arg
                /\ table' = table
                /\ c.cursor[1] \in table'
      ]_vars

\* C4 witness: PopMessage has failed on a header mismatch and the row it
\* selected is in the table
C4_Witness ==
    /\ last.op = "PopMessage"
    /\ last.err = "header_mismatch"
    /\ Len(last.cursor) = 1
    /\ last.cursor[1] \in table
    /\ StoredServiceHeader(last.cursor[1]) = SvcA
    /\ Declared(last) = SvcB

\* C5: a pop called when the table holds no row of the destination that it is
\* to accept (no row of the destination at all, or none with the declared
\* header, a payload that decodes and the predicates holding) fails within its
\* first step and leaves the table as it was
C5_NoMatchDeletesNothing ==
    [][\A c \in StartedCalls :
          (c.op \in Pops
             /\ \A r \in table : r.destination = c.arg.topic => ~Accepts(c, r)) =>
                /\ c.pc = "done"
                /\ c.err # "nil"
                /\ table' = table
      ]_vars

\* C5 witness: a pop has failed for a destination without rows while the table
\* holds a row of another destination
C5_Witness ==
    /\ last.op \in Pops
    /\ last.err \in {"no_rows", "no_match"}
    /\ last.cursor = <<>>
    /\ table # {}

\* C6 as claimed: a PopMessage that succeeds has deleted exactly the row it
\* selected, whose header matched and whose payload it decoded; one that fails
\* has deleted nothing
C6_Original ==
    [][(last'.op = "PopMessage" /\ last'.pc = "done") =>
          IF last'.err = "nil"
          THEN /\ Ids(table) \ Ids(table') = {last'.found}
               /\ table' \subseteq table
               /\ last'.found = last'.cursor[1].id
               /\ last'.cursor[1].destination = last'.arg.topic
               /\ Accepts(last', last'.cursor[1])
               /\ last'.message = Unmarshal(last'.cursor[1].message, last'.arg).msg
          ELSE table' = table
      ]_vars

\* C7: a PopMatching removes at most one row, and only the first row of its
\* cursor that the matcher accepts; every other row stays
C7_FirstAcceptedDeleted ==
    [][(last'.op = "PopMatching" /\ last'.pc = "done") =>
          LET gone == Ids(table) \ Ids(table')
              c == last'
          IN /\ table' \subseteq table
             /\ Cardinality(gone) <= 1
             /\ gone # {} =>
                   \E i \in 1..Len(c.cursor) :
                      /\ gone = {c.cursor[i].id}
                      /\ Accepts(c, c.cursor[i])
                      /\ \A j \in 1..(i - 1) : ~Accepts(c, c.cursor[j])
                      /\ c.err = "nil"
      ]_vars

\* C7 witness: a PopMatching has deleted the second row of a cursor of two,
\* having rejected the first, which is still in the table
C7_Witness ==
    /\ last.op = "PopMatching"
    /\ last.err = "nil"
    /\ Len(last.cursor) = 2
    /\ last.deleted = {last.cursor[2].id}
    /\ last.cursor[1] \in table

\* C8: a PopMatching whose cursor holds a candidate row that does not decode,
\* with no accepted row before it, returns the decode error within its first
\* step and leaves the table as it was, whatever follows the row in the cursor
C8_MalformedRowAborts ==
    [][\A c \in StartedCalls :
          (c.op = "PopMatching"
             /\ \E i \in 1..Len(c.cursor) :
                   /\ Malformed(c, c.cursor[i])
                   /\ \A j \in 1..(i - 1) : ~Accepts(c, c.cursor[j])) =>
                /\ c.pc = "done"
                /\ c.err = "decode"
                /\ table' = table
      ]_vars

\* C8 witness: a PopMatching has returned the decode error at the first row of
\* a cursor whose second row the matcher accepts
C8_Witness ==
    /\ last.op = "PopMatching"
    /\ last.err = "decode"
    /\ Len(last.cursor) = 2
    /\ last.attempted = 1
    /\ Accepts(last, last.cursor[2])
    /\ Range(last.cursor) \subseteq table

\* C9 as claimed: no row is the result of two successful pops
C9_Original == \A id \in DOMAIN claimed : claimed[id] <= 1

\* the operations of the harness that read the table
Readers ==
    Pops \cup {"ForEachMessage", "AssertNoMessages", "AssertTopicIsEmpty"}

\* C10: the rows a harness operation has read are rows some commit has made
\* visible, never rows of the sender's open transaction; a row that was rolled
\* back is in no commit, so never read
C10_OnlyCommittedRowsRead ==
    \A c \in {last} \cup {hs[p] : p \in Callers} :
        c.op \in Readers =>
            /\ c.seen \subseteq committed
            /\ c.seen \cap Ids(Range(tx.rows)) = {}

\* C10 witness: ForEachMessage has read the committed rows while the sender's
\* open transaction holds an inserted row
C10_Witness ==
    /\ last.op = "ForEachMessage"
    /\ last.err = "nil"
    /\ last.seen # {}
    /\ tx.state = "open"
    /\ Len(tx.rows) >= 1

\* the step is the return of Publish with nil: the commit of its last attempt
PublishReturnedNil == pub.pc = "commit" /\ pub'.pc = "done" /\ pub'.err = "nil"

\* C11: Publish is all-or-nothing. The step that returns nil adds to the table
\* exactly the rows of the last attempt, one per message of the batch and in
\* the order of the batch, each the row Send builds for its message, and no row
\* of an earlier attempt; until then, and after a return with an error, the
\* table holds no row of the batch; a reader of the table sees every row of
\* the batch or none
C11_PublishAllOrNothing ==
    [][/\ PublishReturnedNil =>
            /\ Len(pub.rows) = Len(pub.msgs)
            /\ \A k \in 1..Len(pub.rows) :
                  /\ pub.rows[k] =
                        InsertRow(pub.rows[k].id, pub.msgs[k], Marshal(pub.msgs[k]).bytes)
                  /\ \A j \in 1..(k - 1) : pub.rows[j].id < pub.rows[k].id
            /\ Ids(Range(pub.rows)) \cap (Ids(table) \cup committed) = {}
            /\ table' = table \cup Range(pub.rows)
            /\ Cardinality(table') = Cardinality(table) + Len(pub.msgs)
            /\ Ids(table') \cap pub.ids = Ids(Range(pub.rows))
       /\ (pub'.pc # "done" \/ pub'.err # "nil") => Ids(table') \cap pub'.ids = {}
       /\ ~PublishReturnedNil => table' \subseteq table
       /\ \A c \in StartedCalls :
             c.op = "ForEachMessage" =>
                \/ c.seen \cap pub.ids = {}
                \/ /\ c.seen \cap pub.ids = Ids(Range(pub.rows))
                   /\ pub.pc = "done"
                   /\ pub.err = "nil"
      ]_vars

\* C11 witness: Publish of two messages has returned nil at its second attempt,
\* the first having inserted a row before it failed, and a reader has then
\* seen exactly the two rows of the second attempt
C11_Witness ==
    /\ pub.pc = "done"
    /\ pub.err = "nil"
    /\ pub.tries = 2
    /\ Len(pub.msgs) = 2
    /\ Cardinality(pub.ids) = 3
    /\ last.op = "ForEachMessage"
    /\ last.seen = Ids(Range(pub.rows))
    /\ Cardinality(last.seen) = 2

\* C12 as claimed: after PurgeAll returns successfully the table holds no row
C12_Original ==
    [][(last'.op = "PurgeAll" /\ last'.err = "nil") => table' = {}]_vars

\* C12: PurgeAll's delete takes every row committed by then, and after PurgeAll
\* returns successfully none of them is in the table: the table is empty unless
\* a sender's commit has added rows since the delete. Rows enter the table only
\* by a sender's commit. AssertNoMessages on an empty table does not report
\* rows; on a table with a row it never returns nil, and what it reports is one
\* entry per non-empty destination with that destination's row count.
C12_PurgeThenAssertNoMessages ==
    [][/\ \A c \in StartedCalls :
             (c.op = "PurgeAll" /\ c.pc = "commit") => c.dels = Ids(table)
       /\ (last'.op = "PurgeAll" /\ last'.err = "nil") =>
             /\ Ids(table') \cap hs[last'.by].dels = {}
             /\ Ids(table) \subseteq hs[last'.by].dels => table' = {}
       /\ ~(table' \subseteq table) => last'.op = "Commit"
       /\ \A c \in StartedCalls :
             c.op = "AssertNoMessages" =>
                LET dests == {r.destination : r \in table}
                IN /\ c.pc = "done"
                   /\ table = {} => c.err \in {"nil", "select"}
                   /\ table # {} => c.err \in {"found", "select"}
                   /\ c.err = "found" =>
                         /\ Len(c.out) = Cardinality(dests)
                         /\ {c.out[i][2] : i \in 1..Len(c.out)} = dests
                         /\ \A i \in 1..Len(c.out) :
                               c.out[i][1] = Cardinality({r \in table :
                                                 r.destination = c.out[i][2]})
      ]_vars

\* C12 witness: rows were committed, PurgeAll has removed them and the
\* AssertNoMessages made next has passed
C12_Witness ==
    /\ last.op = "AssertNoMessages"
    /\ last.err = "nil"
    /\ calls = 2
    /\ Cardinality(committed) = 2
    /\ claimed = <<>>
    /\ table = {}

\* C13: ForEachMessage gives the callback every committed row exactly once,
\* with the row's destination, the service-header value of the message Send
\* stored as that row, and the row's payload; it returns within its one step
\* and leaves the table as it was; when its select fails the callback gets no
\* row
C13_ForEachMessageReadsAll ==
    [][\A c \in StartedCalls :
          c.op = "ForEachMessage" =>
             /\ c.pc = "done"
             /\ table' = table
             /\ c.err \in {"nil", "select"}
             /\ c.err = "select" => c.out = <<>>
             /\ c.err = "nil" =>
                   /\ Len(c.out) = Cardinality(table)
                   /\ Len(c.cursor) = Len(c.out)
                   /\ \A r \in table :
                         Cardinality({i \in 1..Len(c.cursor) : c.cursor[i] = r}) = 1
                   /\ \A i \in 1..Len(c.out) :
                         /\ c.out[i][1] = c.cursor[i].destination
                         /\ c.out[i][3] = c.cursor[i].message
                         /\ \E m \in Messages :
                               /\ SentAs(c.cursor[i], m)
                               /\ c.out[i][2] = MapGet(m.headers, ServiceNameHeader)
      ]_vars

\* C13 witness: ForEachMessage has given the callback two rows of two
\* destinations, one with a service name that is stored escaped
C13_Witness ==
    /\ last.op = "ForEachMessage"
    /\ last.err = "nil"
    /\ Len(last.out) = 2
    /\ {last.out[1][1], last.out[2][1]} = {"t1", "t2"}
    /\ \E i \in 1..2 : last.out[i][2] = SvcB
    /\ Cardinality(table) = 2

\* C14: AssertTopicIsEmpty(topic) whose select succeeds fails when, and only
\* when, the table holds a row with that destination, whatever rows of other
\* destinations it holds; it never passes while such a row exists, and it
\* leaves the table as it was
C14_TopicEmptyExactly ==
    [][\A c \in StartedCalls :
          c.op = "AssertTopicIsEmpty" =>
             LET rows == {r \in table : r.destination = c.arg}
             IN /\ c.pc = "done"
                /\ table' = table
                /\ c.err \in {"nil", "found", "select"}
                /\ c.err = "found" => rows # {}
                /\ c.err = "nil" => rows = {}
                /\ c.err # "select" => c.out = <<Cardinality(rows)>>
      ]_vars

\* C14 witness: AssertTopicIsEmpty has passed for a topic without rows while
\* the table holds a row of the other topic
C14_Witness ==
    /\ last.op = "AssertTopicIsEmpty"
    /\ last.err = "nil"
    /\ last.arg = "t2"
    /\ \E r \in table : r.destination = "t1"

\* the rows of its cursor that call c has decoded the headers of
Decoded(c) ==
    {c.cursor[i] : i \in 1..(IF c.op = "PopMatching" THEN c.attempted ELSE Len(c.cursor))}

\* a step of call c has failed: a statement, the decoding of a stored headers
\* string, or the decoding of the payload of a row with the declared header
StepFailed(c) ==
    \/ c.err \in {"select", "marshal", "insert", "delete", "decode", "commit"}
    \/ \E r \in Decoded(c) : ParseQueryErr(r.headers)
    \/ c.op \in Pops /\ \E r \in Decoded(c) : Malformed(c, r)

\* C15 as claimed: an operation one of whose steps has failed reports a
\* failure, and none of its deletes survives
C15_Original ==
    (last.pc = "done" /\ StepFailed(last)) =>
        /\ last.err # "nil"
        /\ last.deleted = {}

\* C16: rows change only by deletion. Over every step, a row that stays in the
\* sender's transaction or in the table stays as it is, and a row that enters
\* the table is a row of the committing transaction, as inserted; a row that
\* enters the transaction or the table carries an id no row was ever committed
\* or handed out with, so a deleted id never comes back; no two rows share an
\* id, and every row is as Send built it from some message.
C16_RowsImmutable ==
    [][/\ \A r \in table, q \in table' : r.id = q.id => r = q
       /\ \A k \in 1..Len(tx.rows) : k <= Len(tx'.rows) => tx'.rows[k] = tx.rows[k]
       /\ table' \ table \subseteq Range(tx.rows)
       /\ Ids(table' \ table) \cap committed = {}
       /\ \A k \in (Len(tx.rows) + 1)..Len(tx'.rows) :
             /\ tx'.rows[k].id \notin committed \cup Ids(table) \cup Ids(Range(tx.rows))
             /\ tx'.rows[k].id \notin 1..(nextId - 1)
       /\ \A r, q \in table' \cup Range(tx'.rows) : r.id = q.id => r = q
       /\ \A k, j \in 1..Len(tx'.rows) : tx'.rows[k].id = tx'.rows[j].id => k = j
       /\ \A r \in table' \cup Range(tx'.rows) : \E m \in Messages : SentAs(r, m)
      ]_vars

\* C16 witness: a row was committed and popped, and a later transaction has
\* committed another row, which the table holds under another id
C16_Witness ==
    /\ last.op = "Commit"
    /\ Cardinality(table) = 1
    /\ Cardinality(committed) = 2
    /\ \E id \in DOMAIN claimed : id \notin Ids(table) /\ \A r \in table : r.id > id

\* C17: a PopMatching whose select succeeded gives the matcher a prefix of its
\* cursor, in read order: no row before the last one given is one the matcher
\* accepts, and the row found is the last one given, so the matcher sees no
\* row after the first accepted one. When the call goes on to its delete it
\* has read every row of the cursor, the rows after the accepted one included,
\* and has deleted nothing yet; the delete is issued from there, names the
\* accepted row only, and the call returns nil only from the commit that
\* follows the delete.
C17_MatchThenDrainThenDelete ==
    [][/\ \A c \in StartedCalls :
             (c.op = "PopMatching" /\ c.err # "select") =>
                /\ c.attempted <= Len(c.cursor)
                /\ \A j \in 1..(c.attempted - 1) : ~Accepts(c, c.cursor[j])
                /\ c.pc = "delete" =>
                      /\ c.attempted >= 1
                      /\ c.found = c.cursor[c.attempted].id
                      /\ Accepts(c, c.cursor[c.attempted])
                      /\ c.seen = Ids(Range(c.cursor))
                      /\ c.seen = Ids({r \in table : r.destination = c.arg.topic})
                      /\ c.dels = {}
                /\ (c.pc = "done" /\ c.err = "no_match") =>
                      /\ c.attempted = Len(c.cursor)
                      /\ c.seen = Ids(Range(c.cursor))
       /\ \A p \in Callers :
             (hs[p].op = "PopMatching" /\ hs'[p].pc = "commit" /\ hs[p].pc # "commit") =>
                /\ hs[p].pc = "delete"
                /\ hs[p].seen = Ids(Range(hs[p].cursor))
                /\ hs'[p].dels \subseteq {hs[p].found}
                /\ table' = table
       /\ (last'.op = "PopMatching" /\ last'.err = "nil") =>
             /\ hs[last'.by].pc = "commit"
             /\ Ids(table) \ Ids(table') \subseteq {last'.found}
      ]_vars

\* C17 witness: a PopMatching has accepted the first row of a cursor of two,
\* read the second without giving it to the matcher, and deleted the first
C17_Witness ==
    /\ last.op = "PopMatching"
    /\ last.err = "nil"
    /\ Len(last.cursor) = 2
    /\ last.attempted = 1
    /\ Cardinality(last.seen) = 2
    /\ last.deleted = {last.cursor[1].id}
    /\ Accepts(last, last.cursor[2])

\* C18: the headers string Send stores for a message decodes, without error,
\* to the keys of the message's header map, each with exactly its value; it is
\* the empty string for the empty map, and the empty string decodes to the
\* empty mapping; the service-header value the harness reads from a row is
\* the value the message gave that key, the empty string when it gave none.
C18_HeaderRoundTrip ==
    [][/\ SendReturned("nil") =>
            LET row == tx'.rows[Len(tx'.rows)]
                h == last'.arg.headers
                decoded == ParseQuery(row.headers)
            IN /\ ~ParseQueryErr(row.headers)
               /\ DOMAIN decoded = DOMAIN h
               /\ \A k \in DOMAIN h : decoded[k] = <<h[k]>>
               /\ DOMAIN h = {} => row.headers = <<>>
               /\ row.headers = <<>> => DOMAIN decoded = {}
               /\ StoredServiceHeader(row) = MapGet(h, ServiceNameHeader)
               /\ ServiceNameHeader \notin DOMAIN h => StoredServiceHeader(row) = <<>>
       /\ \A c \in StartedCalls :
             (c.op = "ForEachMessage" /\ c.err = "nil") =>
                \A i \in 1..Len(c.out) :
                   \E m \in CodecMessages :
                      /\ SentAs(c.cursor[i], m)
                      /\ c.out[i][2] = MapGet(m.headers, ServiceNameHeader)
      ]_vars

\* C18 witness: Send has stored a map of two keys, the key with the separator
\* and a value that reads as an escape among them, as a string with escapes
C18_Witness ==
    /\ last.op = "Send"
    /\ last.err = "nil"
    /\ DOMAIN last.arg.headers = CodecKeys
    /\ last.arg.headers[GrpcService] = <<"%", "2", "5">>
    /\ last.arg.headers[<<"k", "=">>] = SvcB
    /\ Len(tx.rows) = 1
    /\ Len(tx.rows[1].headers) > Len(GrpcService) + 11

\* C19 as claimed: a PopMatching without predicates whose cursor holds the
\* single row of the destination goes on to delete that row exactly when
\* PopMessage with the same expected message accepts the row, and exactly when
\* the row's value under the configured key is the value the expected message
\* declares under that key and the payload decodes
C19_Original ==
    [][\A c \in StartedCalls :
          (c.op = "PopMatching" /\ c.conditions = <<>> /\ Len(c.cursor) = 1
             /\ Cardinality({r \in table : r.destination = c.arg.topic}) = 1) =>
                /\ c.pc = "delete" <=> PopMessageRow(c.arg, c.cursor[1]).err = "nil"
                /\ c.pc = "delete" <=> Accepts(c, c.cursor[1])
      ]_vars

\* the row of call c's cursor whose delete the call has issued
FoundRow(c) == CHOOSE r \in Range(c.cursor) : r.id = c.found

\* the positions of call c's cursor whose rows pass the matcher's header check
PassedHeaderCheck(c) ==
    {i \in 1..Len(c.cursor) :
        StoredServiceHeader(c.cursor[i]) = MapGet(c.arg.headers, GrpcService)}

\* the largest element of a non-empty set of numbers
Max(S) == CHOOSE x \in S : \A y \in S : y <= x

\* C20 as claimed: after a successful PopMatching the matcher's target holds
\* the decoded payload of the row the call deleted by id; after one that failed
\* because no row was accepted, the target is as the caller supplied it
C20_Original ==
    (last.op = "PopMatching" /\ last.pc = "done") =>
        /\ last.err = "nil" =>
              /\ \E r \in Range(last.cursor) : r.id = last.found
              /\ last.message = Unmarshal(FoundRow(last).message, last.arg).msg
        /\ last.err = "no_match" => last.message = last.arg

\* C20: after a successful PopMatching the matcher's target holds the decoded
\* payload of the row the call deleted by id; after one that failed because no
\* row was accepted, the target is as supplied only when no row of the cursor
\* passed the matcher's header check, and otherwise holds the decoded payload
\* of the last row that passed it
C20_TargetAfterPopMatching ==
    (last.op = "PopMatching" /\ last.pc = "done") =>
        /\ last.err = "nil" =>
              /\ \E r \in Range(last.cursor) : r.id = last.found
              /\ last.found = last.cursor[last.attempted].id
              /\ last.message = Unmarshal(FoundRow(last).message, last.arg).msg
        /\ last.err = "no_match" =>
              IF PassedHeaderCheck(last) = {}
              THEN last.message = last.arg
              ELSE last.message =
                      Unmarshal(last.cursor[Max(PassedHeaderCheck(last))].message,
                                last.arg).msg

\* C20 witness: a PopMatching has failed with no row accepted, its predicate
\* having rejected the one row that passed the header check, and the target
\* holds that row's payload in place of what the caller supplied
C20_Witness ==
    /\ last.op = "PopMatching"
    /\ last.err = "no_match"
    /\ Len(last.cursor) = 1
    /\ PassedHeaderCheck(last) = {1}
    /\ last.arg.val = ValOld
    /\ last.message.val = ValX

====
